---- MODULE Spec2Model ----
(***************************************************************************)
(* A model of the seedable random-number engine (SeedRandom): seed         *)
(* hashing, the mulberry32 and xoshiro128** cores, the facade operations    *)
(* built on them, and seed / state / fork management.                       *)
(*                                                                          *)
(* JavaScript numbers.  Every number the engine handles is an integer      *)
(* below 2^53, or a uint32 divided by 2^32.  An integer n is held as the    *)
(* pair <<hi, lo>> with n = hi * 2^16 + lo and 0 <= lo < 2^16, so that      *)
(* 32-bit words and the sums and products built from them stay inside the  *)
(* integers the model checker can compute with.  A float in [0, 1) is held *)
(* as its uint32 numerator x, standing for x / 4294967296.                 *)
(***************************************************************************)
EXTENDS Integers, Sequences, FiniteSets, TLC

VARIABLES
  gen,       \* the generator
  twin,      \* a generator constructed with the same arguments as gen; after a
             \* setSeed that returned, a generator freshly constructed with
             \* setSeed's seed and the algorithm in force
  mode,      \* "constructed" or "reseeded": which of the two twin is
  ctorSeed,  \* the seed argument gen and twin were constructed with
  call,      \* the last call made: its name, its arguments and the calls of
             \* getEntropySeed it made
  out,       \* its outcome on gen: returned (ok) or threw, and the value
  twinOut,   \* its outcome on twin
  snap,      \* the snapshot the caller last took with getState
  age,       \* drawing calls that returned since the generator was last seeded
  heap,      \* the arrays of the generator and of its caller, by address, where
             \* the sharing of arrays is followed
  canvas     \* the page of setupThreeCanvas: the animation frame callbacks the
             \* browser holds, renderHandle, the resize observer, the frames drawn

vars == <<gen, twin, mode, ctorSeed, call, out, twinOut, snap, age, heap, canvas>>

Base == 2^16
Half == 2^15

Null == "null"

\* F applied to the value of v, computed once: a statement's result, as the
\* code computes it before going on.
With(v, F(_)) == CHOOSE r \in {F(x) : x \in {v}} : TRUE

(***************************************************************************)
(* Integer arithmetic on <<hi, lo>> pairs                                   *)
(***************************************************************************)

\* The pair of a small integer literal.
Num(n) == <<n \div Base, n % Base>>

\* x >>> 0
ToUint32(x) == <<x[1] % Base, x[2]>>

\* x | 0
ToInt32(x) == <<((x[1] + Half) % Base) - Half, x[2]>>

Add(x, y) == <<x[1] + y[1] + ((x[2] + y[2]) \div Base), (x[2] + y[2]) % Base>>

Neg(x) == IF x[2] = 0 THEN <<-x[1], 0>> ELSE <<-x[1] - 1, Base - x[2]>>

Sub(x, y) == Add(x, Neg(y))

Lt(x, y) == x[1] < y[1] \/ (x[1] = y[1] /\ x[2] < y[2])

Le(x, y) == x = y \/ Lt(x, y)

\* x * c for a small non-negative multiplier c.
MulSmall(x, c) == <<x[1] * c + ((x[2] * c) \div Base), (x[2] * c) % Base>>

\* The exact product of two 16-bit values, as a pair.
Mul16(a, b) ==
  LET p1 == (a \div 256) * b
      p0 == (a % 256) * b
      lo == (p1 % 256) * 256 + (p0 % Base)
  IN  <<(p1 \div 256) + (p0 \div Base) + (lo \div Base), lo % Base>>

\* Bit k of a.
Bit(a, k) == (a \div 2^k) % 2

\* a ^ b and a | b on 4-bit values, tabulated once: entry 16 * a + b + 1.
XorNibble ==
  SubSeq([n \in 1..256 |->
    LET a == (n - 1) \div 16
        b == (n - 1) % 16
    IN  ((Bit(a, 0) + Bit(b, 0)) % 2) + 2 * ((Bit(a, 1) + Bit(b, 1)) % 2)
        + 4 * ((Bit(a, 2) + Bit(b, 2)) % 2) + 8 * ((Bit(a, 3) + Bit(b, 3)) % 2)], 1, 256)

OrNibble ==
  SubSeq([n \in 1..256 |->
    LET a == (n - 1) \div 16
        b == (n - 1) % 16
    IN  ((Bit(a, 0) + Bit(b, 0) + 1) \div 2) + 2 * ((Bit(a, 1) + Bit(b, 1) + 1) \div 2)
        + 4 * ((Bit(a, 2) + Bit(b, 2) + 1) \div 2) + 8 * ((Bit(a, 3) + Bit(b, 3) + 1) \div 2)], 1, 256)

\* a ^ b and a | b on 16-bit limbs, nibble by nibble.
Xor16(a, b) ==
  XorNibble[16 * (a % 16) + (b % 16) + 1]
  + 16 * XorNibble[16 * ((a \div 16) % 16) + ((b \div 16) % 16) + 1]
  + 256 * XorNibble[16 * ((a \div 256) % 16) + ((b \div 256) % 16) + 1]
  + 4096 * XorNibble[16 * (a \div 4096) + (b \div 4096) + 1]

Or16(a, b) ==
  OrNibble[16 * (a % 16) + (b % 16) + 1]
  + 16 * OrNibble[16 * ((a \div 16) % 16) + ((b \div 16) % 16) + 1]
  + 256 * OrNibble[16 * ((a \div 256) % 16) + ((b \div 256) % 16) + 1]
  + 4096 * OrNibble[16 * (a \div 4096) + (b \div 4096) + 1]

\* x ^ y
Xor(x, y) == ToInt32(<<Xor16(x[1] % Base, y[1] % Base), Xor16(x[2], y[2])>>)

\* x | y
Or(x, y) == ToInt32(<<Or16(x[1] % Base, y[1] % Base), Or16(x[2], y[2])>>)

\* x << k, for 0 < k < 16
Shl(x, k) ==
  ToInt32(<<((x[1] % Base) * 2^k + ((x[2] * 2^k) \div Base)) % Base,
            (x[2] * 2^k) % Base>>)

\* x >>> k, for 0 < k < 32
Shr(x, k) ==
  LET h == x[1] % Base
  IN  IF k < 16
      THEN <<h \div 2^k, (h % 2^k) * 2^(16 - k) + (x[2] \div 2^k)>>
      ELSE <<0, h \div 2^(k - 16)>>

\* Math.imul(x, y)
imul(x, y) ==
  LET ah == x[1] % Base
      bh == y[1] % Base
      ll == Mul16(x[2], y[2])
  IN  ToInt32(<<(ll[1] + Mul16(ah, y[2])[2] + Mul16(x[2], bh)[2]) % Base, ll[2]>>)

\* floor(x / y) and x % y for 0 <= x < 2^33 and 0 < y < 2^23: long division of
\* x's top limb and then its two low bytes.
DivModSmall(x, y) ==
  LET yv == y[1] * Base + y[2]
      t2 == (x[1] % yv) * 256 + (x[2] \div 256)
      t3 == (t2 % yv) * 256 + (x[2] % 256)
  IN  [q |-> <<x[1] \div yv, (t2 \div yv) * 256 + (t3 \div yv)>>, r |-> Num(t3 % yv)]

\* The same for y >= 2^23: the quotient lies between the quotients of the top
\* limbs rounded either way.
DivModLarge(x, y) ==
  LET q == CHOOSE c \in (x[1] \div (y[1] + 1))..((x[1] + 1) \div y[1]) :
             Le(MulSmall(y, c), x) /\ Lt(x, MulSmall(y, c + 1))
  IN  [q |-> <<0, q>>, r |-> Sub(x, MulSmall(y, q))]

DivMod(x, y) == IF y[1] < 128 THEN DivModSmall(x, y) ELSE DivModLarge(x, y)

\* The exact product of two non-negative pairs whose product is at most 2^32.
Mul(x, y) ==
  LET ll == Mul16(x[2], y[2])
      lh == Mul16(x[2], y[1])
      hl == Mul16(y[2], x[1])
  IN  Add(ll, <<(lh[1] + hl[1]) * Base + lh[2] + hl[2] + x[1] * y[1] * Base, 0>>)

TwoTo32 == <<Base, 0>>

(***************************************************************************)
(* Seed hashing and entropy                                                 *)
(***************************************************************************)

\* The four accumulators hashString starts from:
\* 1779033703, 3144134277, 1013904242, 2773480762.
HashInit == <<<<27145, 58983>>, <<47975, 44677>>, <<15470, 62322>>, <<42319, 62778>>>>

\* The four multipliers of hashString:
\* 597399067, 2869860233, 951274213, 2716044179.
HashMul == <<<<9115, 38427>>, <<43790, 38793>>, <<14515, 19173>>, <<41443, 35731>>>>

\* A faulty turn: h4 reads the h1 held before the character.
hashStepOld(h, k) ==
  LET h1 == Xor(h[2], imul(Xor(h[1], <<0, k>>), HashMul[1]))
      h2 == Xor(h[3], imul(Xor(h[2], <<0, k>>), HashMul[2]))
      h3 == Xor(h[4], imul(Xor(h[3], <<0, k>>), HashMul[3]))
      h4 == Xor(h[1], imul(Xor(h[4], <<0, k>>), HashMul[4]))
  IN  <<h1, h2, h3, h4>>

\* One turn of hashString's loop for character code k: the four assignments in
\* the order the code makes them, so h4 reads the h1 assigned just above it.
hashStep(h, k) ==
  LET h1 == Xor(h[2], imul(Xor(h[1], <<0, k>>), HashMul[1]))
      h2 == Xor(h[3], imul(Xor(h[2], <<0, k>>), HashMul[2]))
      h3 == Xor(h[4], imul(Xor(h[3], <<0, k>>), HashMul[3]))
      h4 == Xor(h1, imul(Xor(h[4], <<0, k>>), HashMul[4]))
  IN  <<h1, h2, h3, h4>>

RECURSIVE hashLoop(_, _, _)
hashLoop(str, i, h) ==
  IF i > Len(str) THEN h
  ELSE With(hashStep(h, str[i]), LAMBDA h2 : hashLoop(str, i + 1, h2))

\* hashString(str): str is the sequence of the string's character codes.
hashString(str) ==
  With(hashLoop(str, 1, HashInit),
       LAMBDA h : <<ToUint32(h[1]), ToUint32(h[2]), ToUint32(h[3]), ToUint32(h[4])>>)

\* String(n) for an integer n: its decimal digits, "-" first when negative.
RECURSIVE Digits(_)
Digits(x) ==
  IF Lt(x, <<0, 10>>) THEN <<48 + x[2]>>
  ELSE With(DivMod(x, <<0, 10>>), LAMBDA d : Digits(d.q) \o <<48 + d.r[2]>>)

String(n) == IF Lt(n, <<0, 0>>) THEN <<45>> \o Digits(Neg(n)) ELSE Digits(n)

\* A call's outcome: the generator after it, and the value returned or the
\* error thrown.
Return(g, v) == [g |-> g, ok |-> TRUE, v |-> v]
Throw(g, msg) == [g |-> g, ok |-> FALSE, v |-> msg]

\* The result r of a call that made n calls of getEntropySeed.
Read(r, n) == [g |-> r.g, ok |-> r.ok, v |-> r.v, reads |-> n]

\* The calls of getEntropySeed behind the result r: none for the methods that
\* have no path to it.
Reads(r) == IF "reads" \in DOMAIN r THEN r.reads ELSE 0

\* getEntropySeed(): env.secure says whether crypto.getRandomValues or
\* node:crypto exists, env.words are the four words it would hand out; reads
\* counts the calls of getEntropySeed.
getEntropySeed(env) ==
  IF env.secure
  THEN [ok |-> TRUE, v |-> env.words, reads |-> 1]
  ELSE [ok |-> FALSE, v |-> "No secure entropy source available.", reads |-> 1]

\* A faulty normalisation: !seed in place of seed == null, so that 0 and ""
\* are taken for an absent seed.
NormalizeSeedFalsy(seed, env) ==
  IF seed.kind = "absent" \/ seed.val = <<0, 0>> \/ seed.val = <<>> THEN getEntropySeed(env)
  ELSE IF seed.kind = "string" THEN [ok |-> TRUE, v |-> hashString(seed.val), reads |-> 0]
  ELSE [ok |-> TRUE, v |-> hashString(String(seed.val)), reads |-> 0]

\* seed == null ? getEntropySeed() : typeof seed === "string" ? hashString(seed)
\*                                 : hashString(String(seed))
NormalizeSeed(seed, env) ==
  IF seed.kind = "absent" THEN getEntropySeed(env)
  ELSE IF seed.kind = "string" THEN [ok |-> TRUE, v |-> hashString(seed.val), reads |-> 0]
  ELSE [ok |-> TRUE, v |-> hashString(String(seed.val)), reads |-> 0]

(***************************************************************************)
(* The two cores                                                            *)
(***************************************************************************)

\* 0x6d2b79f5
MulberryIncrement == <<27947, 31221>>

\* A JavaScript number that holds a non-negative integer below 2^63:
\* q * 2^32 + w, for the pair w of its low 32 bits.
Number(q, w) == [q |-> q, w |-> w]

\* The number of bits of q.
RECURSIVE BitLength(_)
BitLength(q) == IF q = 0 THEN 0 ELSE 1 + BitLength(q \div 2)

\* The integer q * 2^32 + w as the nearest double, ties to even: below 2^53 it
\* is itself; from 2^53 on, doubles are ulp = 2^(BitLength(q) - 21) apart.
Round53(q, w) ==
  IF q < 2^21 THEN Number(q, w)
  ELSE LET ulp  == 2^(BitLength(q) - 21)
           r    == w[2] % ulp
           down == w[2] - r
           up   == (r > ulp \div 2) \/ (r = ulp \div 2 /\ (down \div ulp) % 2 = 1)
           lo   == IF up THEN down + ulp ELSE down
           hi   == w[1] + (lo \div Base)
       IN  Number(q + (hi \div Base), <<hi % Base, lo % Base>>)

\* x + y in double precision, for a number x and a 32-bit y
NumberAdd(x, y) ==
  With(Add(x.w, y), LAMBDA sum : Round53(x.q + (sum[1] \div Base), <<sum[1] % Base, sum[2]>>))

\* mulberry32(seed): the closure's variable t.
mulberry32(seed) == [t |-> Number(0, ToUint32(seed))]

\* The output word for the counter t, of which the operators ^, | and >>> read
\* the low 32 bits w.
mulberryWord(w) ==
  With(Shr(w, 15), LAMBDA t15 :
  With(Xor(w, t15), LAMBDA a :
  With(Or(w, <<0, 1>>), LAMBDA b :
  With(imul(a, b), LAMBDA r1 :
  With(Shr(r1, 7), LAMBDA r7 :
  With(Xor(r1, r7), LAMBDA d :
  With(Or(r1, <<0, 61>>), LAMBDA e :
  With(imul(d, e), LAMBDA f :
  With(Add(r1, f), LAMBDA h :
  With(Xor(r1, h), LAMBDA r2 :
  With(Shr(r2, 14), LAMBDA r14 :
  With(Xor(r2, r14), LAMBDA r3 : ToUint32(r3)))))))))))))

\* The closure mulberry32 returns: t += 0x6d2b79f5 on a JavaScript number (no
\* wrap), then the output word x; the float returned is x / 4294967296.
mulberryNext(c) ==
  With(NumberAdd(c.t, MulberryIncrement), LAMBDA t : [c |-> [t |-> t], x |-> mulberryWord(t.w)])

\* const rotl = (x, k) => (x << k) | (x >>> (32 - k))
rotl(x, k) == Or(Shl(x, k), Shr(x, 32 - k))

\* xoshiro128(seed): the closure's array s = seed.slice(0, 4).
xoshiro128(seed) == [s |-> SubSeq(seed, 1, 4)]

\* nextUint32(): s[i] of the code is s[i + 1] here.
nextUint32(c) ==
  With(c.s, LAMBDA s :
  With(MulSmall(s[2], 5), LAMBDA m5 :
  With(rotl(m5, 7), LAMBDA r7 :
  With(imul(r7, <<0, 9>>), LAMBDA m9 :
  With(ToUint32(m9), LAMBDA result :
  With(Shl(s[2], 9), LAMBDA t :
  With(Xor(s[3], s[1]), LAMBDA a2 :
  With(Xor(s[4], s[2]), LAMBDA a3 :
  With(Xor(s[2], a2), LAMBDA a1 :
  With(Xor(s[1], a3), LAMBDA a0 :
  With(Xor(a2, t), LAMBDA b2 :
  With(rotl(a3, 11), LAMBDA b3 :
    [c |-> [s |-> <<a0, a1, b2, b3>>], x |-> result]))))))))))))

(***************************************************************************)
(* class SeedRandom                                                         *)
(*                                                                          *)
(* A generator is the record of its private fields: algo is #algo, seed is *)
(* #seed, core says which closures #next, #uint32 and #xoshiro hold        *)
(* ("mulberry": #xoshiro is null and #next is a mulberry32 closure;        *)
(* "xoshiro": all three belong to one xoshiro128 object), t is the         *)
(* mulberry32 closure's variable and s the xoshiro128 object's array.      *)
(***************************************************************************)

Undefined == "undefined"

\* A seed argument that is null or undefined.
Absent == [kind |-> "absent", val |-> <<>>]

Zero == <<0, 0>>

\* The field t of a generator that has no mulberry32 closure.
NoCounter == Number(0, Zero)

MulberryCore(g, seed) ==
  [g EXCEPT !.core = "mulberry", !.t = mulberry32(seed[1]).t, !.s = <<>>]

XoshiroCore(g, seed) ==
  [g EXCEPT !.core = "xoshiro", !.t = NoCounter, !.s = xoshiro128(seed).s]

\* constructor(seed, algo = "xoshiro")
SeedRandom(seed, algo, env) ==
  With(IF algo = Undefined THEN "xoshiro" ELSE algo, LAMBDA a :
  With(NormalizeSeed(seed, env), LAMBDA n :
  With([algo |-> a, seed |-> n.v, core |-> a, t |-> NoCounter, s |-> <<>>], LAMBDA g :
    IF ~n.ok THEN Read(Throw(Null, n.v), n.reads)
    ELSE IF a = "mulberry" THEN Read(Return(MulberryCore(g, n.v), Undefined), n.reads)
    ELSE Read(Return(XoshiroCore(g, n.v), Undefined), n.reads))))

\* uint32(): this.#uint32(), which for mulberry is (this.#next() * 4294967296) >>> 0
uint32(g) ==
  IF g.core = "mulberry"
  THEN With(mulberryNext([t |-> g.t]), LAMBDA r : Return([g EXCEPT !.t = r.c.t], r.x))
  ELSE With(nextUint32([s |-> g.s]), LAMBDA r : Return([g EXCEPT !.s = r.c.s], r.x))

\* float(): this.#next(); the value is the numerator of x / 4294967296
float(g) ==
  IF g.core = "mulberry"
  THEN With(mulberryNext([t |-> g.t]), LAMBDA r : Return([g EXCEPT !.t = r.c.t], r.x))
  ELSE With(nextUint32([s |-> g.s]), LAMBDA r : Return([g EXCEPT !.s = r.c.s], r.x))

\* A faulty loop: the first word is kept whatever the limit.
intLoopFirst(g, limit) == uint32(g)

\* do { x = this.uint32() } while (x >= limit)
RECURSIVE intLoop(_, _)
intLoop(g, limit) ==
  With(uint32(g), LAMBDA r : IF Le(limit, r.v) THEN intLoop(r.g, limit) ELSE r)

\* A faulty int: a word is drawn before the range is validated.
intLate(g, min, max) ==
  With(uint32(g), LAMBDA first :
    IF Lt(max, min) THEN Throw(first.g, "Invalid range: ${min} > ${max}")
    ELSE With(Add(Sub(max, min), <<0, 1>>), LAMBDA range :
         With(Mul(DivMod(TwoTo32, range).q, range), LAMBDA limit :
         With(intLoop(g, limit), LAMBDA r :
           Return(r.g, Add(min, DivMod(r.v, range).r))))))

\* int(min, max)
int(g, min, max) ==
  IF Lt(max, min) THEN Throw(g, "Invalid range: ${min} > ${max}")
  ELSE With(Add(Sub(max, min), <<0, 1>>), LAMBDA range :
       With(Mul(DivMod(TwoTo32, range).q, range), LAMBDA limit :
       With(intLoop(g, limit), LAMBDA r :
         Return(r.g, Add(min, DivMod(r.v, range).r)))))

\* bool()
bool(g) == With(uint32(g), LAMBDA r : Return(r.g, r.v[2] % 2 = 1))

\* between(min, max): the value min + (max - min) * float(), kept as its parts
between(g, min, max) ==
  IF Le(max, min) THEN Throw(g, "Invalid range: ${min} >= ${max}")
  ELSE With(float(g), LAMBDA r : Return(r.g, [min |-> min, max |-> max, float |-> r.v]))

\* pick(arr)
pick(g, arr) ==
  IF Len(arr) = 0 THEN Throw(g, "Cannot pick from empty array")
  ELSE With(int(g, Zero, Num(Len(arr) - 1)), LAMBDA r : Return(r.g, arr[r.v[2] + 1]))

\* A faulty swap: a[i] = a[j] alone, so that a[j] is kept twice.
SwapOverwrite(a, i, j) == [a EXCEPT ![i + 1] = a[j + 1]]

\* [a[i], a[j]] = [a[j], a[i]], for 0-based i and j
Swap(a, i, j) == [a EXCEPT ![i + 1] = a[j + 1], ![j + 1] = a[i + 1]]

\* for (let i = a.length - 1; i > 0; i--) { ... }
RECURSIVE shuffleLoop(_, _, _)
shuffleLoop(g, a, i) ==
  IF i > 0
  THEN With(int(g, Zero, Num(i)), LAMBDA r :
       With(Swap(a, i, r.v[2]), LAMBDA a2 : shuffleLoop(r.g, a2, i - 1)))
  ELSE Return(g, a)

\* arr.slice(): a new array with arr's elements.
slice(arr) == [i \in 1..Len(arr) |-> arr[i]]

\* shuffle(arr): the loop works on the copy a = arr.slice(); the field arr of
\* the result is the caller's array as the call leaves it.
shuffle(g, arr) ==
  With(shuffleLoop(g, slice(arr), Len(arr) - 1), LAMBDA r :
    [g |-> r.g, ok |-> TRUE, v |-> r.v, arr |-> arr])

\* sample(arr, n)
sample(g, arr, n) ==
  IF n < 0 \/ n > Len(arr) THEN Throw(g, "Invalid sample size")
  ELSE With(shuffle(g, arr), LAMBDA r : Return(r.g, SubSeq(r.v, 1, n)))

\* weighted(choices): choices is a sequence of <<value, weight>>, the weights
\* small integers.
RECURSIVE weightedTotal(_, _, _)
weightedTotal(choices, i, total) ==
  IF i > Len(choices) THEN [ok |-> TRUE, v |-> total]
  ELSE IF choices[i][2] < 0 THEN [ok |-> FALSE, v |-> 0]
  ELSE weightedTotal(choices, i + 1, total + choices[i][2])

\* r -= w; if (r < 0) return v -- r is held times 2^32, so it starts as
\* x * total for float() = x / 2^32.
RECURSIVE weightedScan(_, _, _)
weightedScan(choices, i, r) ==
  IF i > Len(choices) THEN choices[Len(choices)][1]
  ELSE With(Sub(r, MulSmall(TwoTo32, choices[i][2])), LAMBDA r2 :
         IF Lt(r2, Zero) THEN choices[i][1] ELSE weightedScan(choices, i + 1, r2))

weighted(g, choices) ==
  IF Len(choices) = 0 THEN Throw(g, "Empty choices")
  ELSE With(weightedTotal(choices, 1, 0), LAMBDA total :
         IF ~total.ok THEN Throw(g, "Negative weight")
         ELSE IF total.v = 0 THEN Throw(g, "Total weight must be positive")
         ELSE With(float(g), LAMBDA r :
                Return(r.g, weightedScan(choices, 1, MulSmall(r.v, total.v)))))

\* chance(probability): probability is the fraction <<n, d>>, d > 0.
chance(g, probability) ==
  IF probability[1] < 0 \/ probability[1] > probability[2]
  THEN Throw(g, "Probability must be in [0, 1]")
  ELSE With(float(g), LAMBDA r :
         Return(r.g, Lt(MulSmall(r.v, probability[2]), MulSmall(TwoTo32, probability[1]))))

\* getSeed()
getSeed(g) == Return(g, g.seed)

\* setSeed(seed, algo)
setSeed(g, seed, algo, env) ==
  With([g EXCEPT !.algo = IF algo = Undefined THEN g.algo ELSE algo], LAMBDA g1 :
  With(NormalizeSeed(seed, env), LAMBDA n :
    IF ~n.ok THEN Read(Throw(g1, n.v), n.reads)
    ELSE IF algo = "mulberry"
    THEN Read(Return(MulberryCore([g1 EXCEPT !.seed = n.v], n.v), Undefined), n.reads)
    ELSE Read(Return(XoshiroCore([g1 EXCEPT !.seed = n.v], n.v), Undefined), n.reads)))

\* A snapshot { s: [...] }, and null.
RNGState(s) == [null |-> FALSE, s |-> s]
NullState == [null |-> TRUE, s |-> <<>>]

\* getState(): the state getter returns { s: s.slice() }
getState(g) == Return(g, IF g.core = "xoshiro" THEN RNGState(g.s) ELSE NullState)

\* A faulty setState: the snapshot is accepted and not installed.
setStateKept(g, state) ==
  IF g.core /= "xoshiro" THEN Throw(g, "State management requires xoshiro algorithm")
  ELSE IF state.null THEN Throw(g, "TypeError")
  ELSE Return(g, Undefined)

\* A faulty setState: no check that the core is xoshiro.
setStateUnchecked(g, state) ==
  IF state.null THEN Throw(g, "TypeError")
  ELSE Return([g EXCEPT !.s = state.s], Undefined)

\* setState(state): the state setter assigns s = v.s.slice()
setState(g, state) ==
  IF g.core /= "xoshiro" THEN Throw(g, "State management requires xoshiro algorithm")
  ELSE IF state.null THEN Throw(g, "TypeError")
  ELSE Return([g EXCEPT !.s = state.s], Undefined)

\* A faulty fork: the child is seeded from the parent's next word, and the
\* parent is left where it was.
forkPeek(g, env) ==
  With(uint32(g), LAMBDA r :
  With(SeedRandom([kind |-> "number", val |-> r.v], g.algo, env), LAMBDA c :
    Read(IF c.ok THEN Return(g, c.g) ELSE Throw(g, c.v), c.reads)))

\* A faulty fork: the child is seeded from the host's entropy.
forkEntropy(g, env) ==
  With(uint32(g), LAMBDA r :
  With(SeedRandom(Absent, r.g.algo, env), LAMBDA c :
    Read(IF c.ok THEN Return(r.g, c.g) ELSE Throw(r.g, c.v), c.reads)))

\* fork(): new SeedRandom(this.uint32(), this.#algo)
fork(g, env) ==
  With(uint32(g), LAMBDA r :
  With(SeedRandom([kind |-> "number", val |-> r.v], r.g.algo, env), LAMBDA c :
    Read(IF c.ok THEN Return(r.g, c.g) ELSE Throw(r.g, c.v), c.reads)))

(***************************************************************************)
(* The state machine: one generator under test (gen) and a second one      *)
(* (twin) that is given the same calls, so that two runs can be compared.  *)
(***************************************************************************)

\* Drawing calls explored per seeding.
MaxAge == 3

\* new SeedRandom(), new SeedRandom(0), new SeedRandom("ab")
SeedInputs == {Absent, [kind |-> "number", val |-> Zero], [kind |-> "string", val |-> <<97, 98>>]}

Algos == {"mulberry", "xoshiro"}

AlgoArgs == Algos \cup {Undefined}

\* Two of the quadruples a secure source may hand out.
EntropyWords ==
  { <<<<1, 2>>, <<3, 4>>, <<5, 6>>, <<7, 8>>>>,
    <<<<65535, 65535>>, <<0, 0>>, <<32768, 1>>, <<4660, 22136>>>> }

Env(sec, words) == [secure |-> sec, words |-> words]

\* The host of the second generator: its source hands out other words.
TwinEnv(env) == [env EXCEPT !.words = CHOOSE w \in EntropyWords : w /= env.words]

\* A secure host, for the calls that never ask for entropy.
Host == Env(TRUE, CHOOSE w \in EntropyWords : TRUE)

\* The seed arguments together with the hosts that tell them apart: an absent
\* seed on a host with a secure source and on one without.
SeedCases ==
  {<<seed, Host>> : seed \in SeedInputs} \cup {<<Absent, [Host EXCEPT !.secure = FALSE]>>}

\* Words compared after a snapshot is restored, and after a fork.
SnapDraws == 3

\* n calls of uint32() on g: the generator afterwards and the words returned.
RECURSIVE drawN(_, _)
drawN(g, n) ==
  IF n = 0 THEN Return(g, <<>>)
  ELSE With(uint32(g), LAMBDA r :
       With(drawN(r.g, n - 1), LAMBDA d : Return(d.g, <<r.v>> \o d.v)))

\* No snapshot in hand.
NoSnap == [taken |-> FALSE, s |-> <<>>, next |-> <<>>]

Outcome(r) == [ok |-> r.ok, v |-> r.v]

\* The addresses of the heap, and the reference that holds none.
Addrs == 1..5
NoRef == 0

\* The heap where the sharing of arrays is not followed.
\* No page: setupThreeCanvas has not been called.
NoCanvas == "none"

NoHeap == [mem |-> [a \in Addrs |-> <<>>], seed |-> NoRef, s |-> NoRef, snapshot |-> NoRef]

Init ==
  \E sc \in SeedCases, algo \in Algos :
    \E c1 \in {SeedRandom(sc[1], algo, sc[2])}, c2 \in {SeedRandom(sc[1], algo, TwinEnv(sc[2]))} :
        /\ c1.ok
        /\ gen = c1.g
        /\ twin = c2.g
        /\ mode = "constructed"
        /\ ctorSeed = sc[1]
        /\ call = [op |-> "new", args |-> <<sc[1], algo>>, reads |-> c1.reads]
        /\ out = Outcome(c1)
        /\ twinOut = Outcome(c2)
        /\ snap = NoSnap
        /\ age = 0
        /\ heap = NoHeap
        /\ canvas = NoCanvas

\* The call op(args) made on both generators, r1 and r2 its results.
Call(op, args, r1, r2) ==
  /\ gen' = r1.g
  /\ twin' = r2.g
  /\ call' = [op |-> op, args |-> args, reads |-> Reads(r1)]
  /\ out' = Outcome(r1)
  /\ twinOut' = Outcome(r2)
  /\ UNCHANGED <<ctorSeed, heap, canvas>>

\* A call that takes one word from the core.
Draw ==
  /\ age' = age + 1
  /\ UNCHANGED <<mode, snap>>

Uint32 ==
  /\ age < MaxAge
  /\ \E r1 \in {uint32(gen)}, r2 \in {uint32(twin)} :
       /\ Call("uint32", <<>>, r1, r2)
       /\ Draw

Float ==
  /\ age < MaxAge
  /\ \E r1 \in {float(gen)}, r2 \in {float(twin)} :
       /\ Call("float", <<>>, r1, r2)
       /\ Draw

\* setSeed(seed, algo).  When it returns, twin becomes a generator freshly
\* constructed on the same host with that seed and the algorithm in force: the
\* one given, or else the one gen was recorded to run.
SetSeed ==
  \E sc \in SeedCases, algo \in AlgoArgs :
    \E r1 \in {setSeed(gen, sc[1], algo, sc[2])} :
    \E r2 \in {IF r1.ok
                THEN SeedRandom(sc[1], IF algo = Undefined THEN gen.algo ELSE algo, sc[2])
                ELSE setSeed(twin, sc[1], algo, TwinEnv(sc[2]))} :
        /\ Call("setSeed", <<sc[1], algo>>, r1, r2)
        /\ mode' = IF r1.ok THEN "reseeded" ELSE mode
        /\ age' = IF r1.ok THEN 0 ELSE age
        /\ snap' = IF r1.ok THEN NoSnap ELSE snap

\* getState(): the caller keeps the snapshot returned; snap.next are the words
\* the generator is about to draw as the snapshot is taken.
GetState ==
  \E r1 \in {getState(gen)}, r2 \in {getState(twin)} :
      /\ Call("getState", <<>>, r1, r2)
      /\ snap' = IF r1.ok /\ ~r1.v.null
                 THEN [taken |-> TRUE, s |-> r1.v.s, next |-> drawN(gen, SnapDraws).v]
                 ELSE NoSnap
      /\ UNCHANGED <<mode, age>>

\* The all-zero snapshot.
ZeroState == RNGState(<<Zero, Zero, Zero, Zero>>)

\* setState with the snapshot in hand, or with the all-zero snapshot.
SetState ==
  \E state \in {RNGState(snap.s) : t \in {snap.taken} \ {FALSE}} \cup {ZeroState} :
    \E r1 \in {setState(gen, state)}, r2 \in {setState(twin, state)} :
      /\ Call("setState", <<state>>, r1, r2)
      /\ UNCHANGED <<mode, snap, age>>

\* fork()
Fork ==
  /\ age < MaxAge
  /\ \E r1 \in {fork(gen, Host)}, r2 \in {fork(twin, TwinEnv(Host))} :
       /\ Call("fork", <<>>, r1, r2)
       /\ Draw

Next == Uint32 \/ Float \/ SetSeed \/ GetState \/ SetState \/ Fork

Spec == Init /\ [][Next]_vars

(***************************************************************************)
(* The facade: the same two generators, given the calls that validate      *)
(* their arguments and then draw.                                           *)
(***************************************************************************)

\* int(5, 3), int(0, 9), int(-3, 3), int(7, 7), int(-2^30, 2^30) and
\* int(0, 2^32 - 1)
IntArgs ==
  { <<Num(5), Num(3)>>, <<Zero, Num(9)>>, <<Neg(Num(3)), Num(3)>>, <<Num(7), Num(7)>>,
    <<<<-16384, 0>>, <<16384, 0>>>>, <<Zero, <<65535, 65535>>>> }

\* between(0, 1), between(2, 2), between(3, 1)
BetweenArgs == { <<Zero, Num(1)>>, <<Num(2), Num(2)>>, <<Num(3), Num(1)>> }

Items == <<"a", "b", "c">>

\* shuffle([]), shuffle(["a"]), shuffle(["a", "b", "c"]), shuffle(["a", "a", "b"])
ShuffleArgs == { <<>>, <<"a">>, Items, <<"a", "a", "b">> }

\* pick([]), pick(["a", "b", "c"])
PickArgs == { <<>>, Items }

\* sample(arr, 2), sample(arr, 4), sample(arr, -1)
SampleArgs == { <<Items, 2>>, <<Items, 4>>, <<Items, -1>> }

\* weighted([]), weighted([["a", 1], ["b", 3]]), weighted([["a", -1], ["b", 2]]),
\* weighted([["a", 0]])
WeightedArgs ==
  { <<>>, <<<<"a", 1>>, <<"b", 3>>>>, <<<<"a", -1>>, <<"b", 2>>>>, <<<<"a", 0>>>> }

\* chance(1/2), chance(3/2), chance(-1/2), chance(0), chance(1)
ChanceArgs == { <<1, 2>>, <<3, 2>>, <<-1, 2>>, <<0, 1>>, <<1, 1>> }

\* A facade call: it counts towards age when it returned.
Facade(op, args, r1, r2) ==
  /\ age < MaxAge
  /\ Call(op, args, r1, r2)
  /\ age' = IF r1.ok THEN age + 1 ELSE age
  /\ UNCHANGED <<mode, snap>>

IntDraw ==
  \E a \in IntArgs :
    \E r1 \in {int(gen, a[1], a[2])}, r2 \in {int(twin, a[1], a[2])} :
      Facade("int", a, r1, r2)

Bool ==
  \E r1 \in {bool(gen)}, r2 \in {bool(twin)} :
    Facade("bool", <<>>, r1, r2)

Between ==
  \E a \in BetweenArgs :
    \E r1 \in {between(gen, a[1], a[2])}, r2 \in {between(twin, a[1], a[2])} :
      Facade("between", a, r1, r2)

Pick ==
  \E arr \in PickArgs :
    \E r1 \in {pick(gen, arr)}, r2 \in {pick(twin, arr)} :
      Facade("pick", <<arr>>, r1, r2)

\* shuffle(arr): the call is recorded with the array passed and the same array
\* as the call leaves it.
Shuffle ==
  \E arr \in ShuffleArgs :
    \E r1 \in {shuffle(gen, arr)}, r2 \in {shuffle(twin, arr)} :
      Facade("shuffle", <<arr, r1.arr>>, r1, r2)

Sample ==
  \E a \in SampleArgs :
    \E r1 \in {sample(gen, a[1], a[2])}, r2 \in {sample(twin, a[1], a[2])} :
      Facade("sample", a, r1, r2)

Weighted ==
  \E choices \in WeightedArgs :
    \E r1 \in {weighted(gen, choices)}, r2 \in {weighted(twin, choices)} :
      Facade("weighted", <<choices>>, r1, r2)

Chance ==
  \E p \in ChanceArgs :
    \E r1 \in {chance(gen, p)}, r2 \in {chance(twin, p)} :
      Facade("chance", <<p>>, r1, r2)

FacadeNext ==
  Uint32 \/ IntDraw \/ Bool \/ Between \/ Pick \/ Shuffle \/ Sample \/ Weighted \/ Chance

FacadeSpec == Init /\ [][FacadeNext]_vars

\* getSeed()
GetSeed ==
  \E r1 \in {getSeed(gen)}, r2 \in {getSeed(twin)} :
    /\ Call("getSeed", <<>>, r1, r2)
    /\ UNCHANGED <<mode, snap, age>>

\* The calls of Spec, getSeed, and bool for the facade, whose calls draw
\* with uint32() and float().
EntropyNext == Next \/ GetSeed \/ Bool

EntropySpec == Init /\ [][EntropyNext]_vars

(***************************************************************************)
(* The loops of int and normal, one statement at a time.  While a call is  *)
(* inside its loop, call holds its position (pc) and its local variables,  *)
(* and no other call is made on the generator: a JavaScript call runs to   *)
(* completion.                                                              *)
(***************************************************************************)

\* const range = max - min + 1
intRange(min, max) == Add(Sub(max, min), <<0, 1>>)

\* const limit = Math.floor(4294967296 / range) * range
intLimit(range) == Mul(DivMod(TwoTo32, range).q, range)

\* The calls of IntArgs, and int(0, 2^32) and int(-2^31, 2^31), whose ranges
\* exceed 2^32.
LoopIntArgs == IntArgs \cup { <<Zero, TwoTo32>>, <<<<-32768, 0>>, <<32768, 0>>>> }

\* normal() with its defaults, and normal(5, 2)
NormalArgs == { <<0, 1>>, <<5, 2>> }

\* A call is inside its loop.
InLoop == "pc" \in DOMAIN call

\* The call under way has not returned or thrown yet.
NoOutcome == [ok |-> FALSE, v |-> "pending"]

\* A step of the call under way: twin is not called.
LoopFrame == UNCHANGED <<twin, mode, ctorSeed, twinOut, snap, heap, canvas>>

\* A word drawn inside a loop: age counts the draws that moved the generator,
\* and a draw that leaves the generator where it was is always explored.
LoopDraw(r) ==
  /\ r.g = gen \/ age < MaxAge
  /\ gen' = r.g
  /\ age' = IF r.g = gen THEN age ELSE age + 1

\* int(min, max) up to the loop: the range check, range and limit; x is <<>>
\* until it is assigned.
IntEnter ==
  /\ ~InLoop
  /\ age < MaxAge
  /\ \E a \in LoopIntArgs :
       IF Lt(a[2], a[1])
       THEN /\ call' = [op |-> "int", args |-> a]
            /\ out' = Outcome(Throw(gen, "Invalid range: ${min} > ${max}"))
       ELSE \E range \in {intRange(a[1], a[2])} :
              /\ call' = [op |-> "int", args |-> a, pc |-> "do", range |-> range,
                          limit |-> intLimit(range), x |-> <<>>]
              /\ out' = NoOutcome
  /\ UNCHANGED <<gen, age>>
  /\ LoopFrame

\* do { x = this.uint32();
IntDo ==
  /\ InLoop /\ call.op = "int" /\ call.pc = "do"
  /\ \E r \in {uint32(gen)} :
       /\ LoopDraw(r)
       /\ call' = [call EXCEPT !.pc = "while", !.x = r.v]
  /\ UNCHANGED out
  /\ LoopFrame

\* } while (x >= limit); return min + (x % range);
IntWhile ==
  /\ InLoop /\ call.op = "int" /\ call.pc = "while"
  /\ IF Le(call.limit, call.x)
     THEN /\ call' = [call EXCEPT !.pc = "do"]
          /\ UNCHANGED out
     ELSE /\ call' = [op |-> "int", args |-> call.args]
          /\ out' = [ok |-> TRUE, v |-> Add(call.args[1], DivMod(call.x, call.range).r)]
  /\ UNCHANGED <<gen, age>>
  /\ LoopFrame

\* normal(mean, std): let u = 0, v = 0;
NormalEnter ==
  /\ ~InLoop
  /\ age < MaxAge
  /\ \E a \in NormalArgs :
       call' = [op |-> "normal", args |-> a, pc |-> "while_u", u |-> Zero, v |-> Zero]
  /\ out' = NoOutcome
  /\ UNCHANGED <<gen, age>>
  /\ LoopFrame

\* u = this.float() and v = this.float(), the bodies of the two loops
NormalFloat ==
  /\ InLoop /\ call.op = "normal" /\ call.pc \in {"float_u", "float_v"}
  /\ \E r \in {float(gen)} :
       /\ LoopDraw(r)
       /\ call' = IF call.pc = "float_u"
                  THEN [call EXCEPT !.pc = "while_u", !.u = r.v]
                  ELSE [call EXCEPT !.pc = "while_v", !.v = r.v]
  /\ UNCHANGED out
  /\ LoopFrame

\* while (u === 0) and while (v === 0), then the return: the value
\* mean + std * Math.sqrt(-2 * Math.log(u)) * Math.cos(2 * Math.PI * v) is kept
\* as its parts.
NormalWhile ==
  /\ InLoop /\ call.op = "normal" /\ call.pc \in {"while_u", "while_v"}
  /\ IF call.pc = "while_u"
     THEN /\ call' = [call EXCEPT !.pc = IF call.u = Zero THEN "float_u" ELSE "while_v"]
          /\ UNCHANGED out
     ELSE IF call.v = Zero
     THEN /\ call' = [call EXCEPT !.pc = "float_v"]
          /\ UNCHANGED out
     ELSE /\ call' = [op |-> "normal", args |-> call.args]
          /\ out' = [ok |-> TRUE, v |-> [mean |-> call.args[1], std |-> call.args[2],
                                         u |-> call.u, v |-> call.v]]
  /\ UNCHANGED <<gen, age>>
  /\ LoopFrame

\* The calls made between two loops.
Idle == ~InLoop /\ (Uint32 \/ SetState)

LoopNext ==
  Idle \/ IntEnter \/ IntDo \/ IntWhile \/ NormalEnter \/ NormalFloat \/ NormalWhile

LoopSpec == Init /\ [][LoopNext]_vars

\* A loop under way goes on: the engine runs the call to completion.
FairLoopSpec ==
  LoopSpec /\ WF_vars(IntDo) /\ WF_vars(IntWhile) /\ WF_vars(NormalFloat) /\ WF_vars(NormalWhile)

\* The facade with int run one statement at a time.
Validate == ~InLoop /\ (Uint32 \/ Between \/ Pick \/ Sample \/ Weighted \/ Chance)

ValidationNext == Validate \/ IntEnter \/ IntDo \/ IntWhile

ValidationSpec == Init /\ [][ValidationNext]_vars

(***************************************************************************)
(* The arrays as objects.  heap.mem gives each address its array; seed is  *)
(* the address this.#seed holds, s the one held by the variable s of the   *)
(* xoshiro128 closure (NoRef on mulberry), snapshot the one in the s field *)
(* of the snapshot the caller keeps.  A write to an array is seen through  *)
(* every reference to its address.  gen holds what the generator's fields  *)
(* read: gen.seed and gen.s are the arrays at heap.seed and heap.s.        *)
(***************************************************************************)

\* The addresses in use.
Live(h) == {h.seed, h.s, h.snapshot} \ {NoRef}

\* The arrays no reference leads to are dropped.
Collect(h) == [h EXCEPT !.mem = [a \in Addrs |-> IF a \in Live(h) THEN h.mem[a] ELSE <<>>]]

\* A new array: the first address not in use.
NewAddr(h) == CHOOSE a \in Addrs \ Live(h) : \A b \in Addrs \ Live(h) : a <= b

\* What the generator's fields read on the heap h.
Fields(g, h) ==
  [g EXCEPT !.seed = h.mem[h.seed], !.s = IF h.s = NoRef THEN <<>> ELSE h.mem[h.s]]

\* A faulty closure: let s = seed, the seed array itself.
xoshiroShared(h) == [h EXCEPT !.s = h.seed]

\* let s = seed.slice(0, 4): the closure's array is a new one.
xoshiroSlice(h) ==
  With(NewAddr(h), LAMBDA a : [h EXCEPT !.mem[a] = xoshiro128(h.mem[h.seed]).s, !.s = a])

\* this.#seed = ... and the core built from it, for the generator g the
\* constructor or setSeed leaves: the seed is a new array.
Seeded(h, g) ==
  With(Collect([h EXCEPT !.seed = NoRef, !.s = NoRef]), LAMBDA h0 :
  With(NewAddr(h0), LAMBDA a :
  With([h0 EXCEPT !.mem[a] = g.seed, !.seed = a], LAMBDA h1 :
    IF g.core = "xoshiro" THEN xoshiroSlice(h1) ELSE h1)))

\* nextUint32() writes s[0] .. s[3] in place; mulberry32 holds a number.
Advanced(h, g) == IF h.s = NoRef THEN h ELSE [h EXCEPT !.mem[h.s] = g.s]

\* A faulty getter: { s: s }, the closure's array itself.
stateGetterShared(h) == [h EXCEPT !.snapshot = h.s]

\* get state() { return { s: s.slice() } }
stateGetter(h) ==
  With(Collect([h EXCEPT !.snapshot = NoRef]), LAMBDA h0 :
  With(NewAddr(h0), LAMBDA a : [h0 EXCEPT !.mem[a] = slice(h0.mem[h0.s]), !.snapshot = a]))

\* A faulty setter: s = v.s, the caller's array itself.
stateSetterShared(h) == Collect([h EXCEPT !.s = h.snapshot])

\* set state(v) { s = v.s.slice() }, for the snapshot the caller keeps
stateSetter(h) ==
  With(Collect([h EXCEPT !.s = NoRef]), LAMBDA h0 :
  With(NewAddr(h0), LAMBDA a : [h0 EXCEPT !.mem[a] = slice(h0.mem[h0.snapshot]), !.s = a]))

\* The words the caller writes into a snapshot's array.
EditWords == {Zero, <<1, 1>>}

\* A step on the heap: twin is not called and no words are kept for later.
\* Here age counts the draws, the caller's writes and the reseedings since
\* construction.
HeapFrame == UNCHANGED <<twin, mode, ctorSeed, twinOut, snap, canvas>>

HeapInit ==
  \E sc \in SeedCases, algo \in Algos :
    \E c \in {SeedRandom(sc[1], algo, sc[2])} :
        /\ c.ok
        /\ gen = c.g
        /\ twin = c.g
        /\ mode = "constructed"
        /\ ctorSeed = sc[1]
        /\ call = [op |-> "new", args |-> <<sc[1], algo>>]
        /\ out = Outcome(c)
        /\ twinOut = Outcome(c)
        /\ snap = NoSnap
        /\ age = 0
        /\ heap = Seeded(NoHeap, c.g)
        /\ canvas = NoCanvas

\* uint32()
HeapUint32 ==
  /\ age < MaxAge
  /\ \E r \in {uint32(gen)} :
       \E h \in {Advanced(heap, r.g)} :
         /\ heap' = h
         /\ gen' = Fields(r.g, h)
         /\ out' = Outcome(r)
  /\ call' = [op |-> "uint32", args |-> <<>>]
  /\ age' = age + 1
  /\ HeapFrame

\* getSeed(): return this.#seed
HeapGetSeed ==
  /\ call' = [op |-> "getSeed", args |-> <<>>]
  /\ out' = Outcome(getSeed(gen))
  /\ UNCHANGED <<gen, age, heap>>
  /\ HeapFrame

\* setSeed(0, algo), and setSeed(null, algo) on a host with no secure source
HeapSetSeed ==
  /\ age < MaxAge
  /\ \E sc \in {c \in SeedCases : c[1].kind = "number" \/ ~c[2].secure}, algo \in AlgoArgs :
       \E r \in {setSeed(gen, sc[1], algo, sc[2])} :
       \E h \in {IF r.ok THEN Seeded(heap, r.g) ELSE heap} :
         /\ heap' = h
         /\ gen' = Fields(r.g, h)
         /\ out' = Outcome(r)
         /\ call' = [op |-> "setSeed", args |-> <<sc[1], algo>>]
         /\ age' = IF r.ok THEN age + 1 ELSE age
  /\ HeapFrame

\* getState(): the caller keeps the snapshot returned
HeapGetState ==
  /\ \E r \in {getState(gen)} :
       \E h \in {IF r.v.null THEN Collect([heap EXCEPT !.snapshot = NoRef]) ELSE stateGetter(heap)} :
         /\ heap' = h
         /\ gen' = Fields(r.g, h)
         /\ out' = Outcome(r)
  /\ call' = [op |-> "getState", args |-> <<>>]
  /\ UNCHANGED age
  /\ HeapFrame

\* setState(snapshot), with the snapshot the caller keeps
HeapSetState ==
  /\ heap.snapshot /= NoRef
  /\ \E state \in {RNGState(heap.mem[heap.snapshot])} :
       \E r \in {setState(gen, state)} :
       \E h \in {IF r.ok THEN stateSetter(heap) ELSE heap} :
         /\ heap' = h
         /\ gen' = Fields(r.g, h)
         /\ out' = Outcome(r)
         /\ call' = [op |-> "setState", args |-> <<state>>]
  /\ UNCHANGED age
  /\ HeapFrame

\* snapshot.s[0] = w, by the caller
HeapEdit ==
  /\ age < MaxAge
  /\ heap.snapshot /= NoRef
  /\ \E k \in {1}, w \in EditWords :
       \E h \in {[heap EXCEPT !.mem[heap.snapshot][k] = w]} :
         /\ heap' = h
         /\ gen' = Fields(gen, h)
         /\ call' = [op |-> "edit", args |-> <<k, w>>]
  /\ out' = Outcome(Return(gen, Undefined))
  /\ age' = age + 1
  /\ HeapFrame

HeapNext ==
  HeapUint32 \/ HeapGetSeed \/ HeapSetSeed \/ HeapGetState \/ HeapSetState \/ HeapEdit

HeapSpec == HeapInit /\ [][HeapNext]_vars

(***************************************************************************)
(* hashString on its own: the texts over HashChars of up to MaxText        *)
(* characters, one character added at a time.                               *)
(***************************************************************************)

\* Characters hashed: "0", "a" and the euro sign, a code above 255.
HashChars == {48, 97, 8364}

\* Longest text hashed.
MaxText == 4

\* hashString(str) as a call, and what it returns.
HashCall(str) == [op |-> "hashString", args |-> <<str>>]
HashOut(str) == [ok |-> TRUE, v |-> hashString(str)]

\* hashString(""); no generator is constructed.
HashInit0 ==
  /\ call = HashCall(<<>>)
  /\ out = HashOut(<<>>)
  /\ twinOut = HashOut(<<>>)
  /\ gen = Null /\ twin = Null /\ mode = "constructed" /\ ctorSeed = Absent
  /\ snap = NoSnap /\ age = 0 /\ heap = NoHeap /\ canvas = NoCanvas

\* hashString of the last text with one more character.
HashChar ==
  /\ Len(call.args[1]) < MaxText
  /\ \E k \in HashChars :
       \E r \in {HashOut(call.args[1] \o <<k>>)} :
         /\ call' = HashCall(call.args[1] \o <<k>>)
         /\ out' = r
         /\ twinOut' = r
  /\ UNCHANGED <<gen, twin, mode, ctorSeed, snap, age, heap, canvas>>

HashSpec == HashInit0 /\ [][HashChar]_vars

(***************************************************************************)
(* mulberry32 after many draws.  gen is a mulberry generator that has made *)
(* n draws, twin the generator of the same seed and draws whose counter is *)
(* kept modulo 2^32.                                                        *)
(***************************************************************************)

\* Draws already made when a run is taken up: after FarAhead + 6 draws the
\* counter of every seed is still below 2^53, and three draws later it is not
\* (2^53 / 0x6d2b79f5 = 4917758.99...).
FarAhead == 4917750

\* Draws followed from there.
MaxFar == 12

\* x + y exactly, for numbers below 2^62.
ExactAdd(x, y) ==
  With(Add(x.w, y.w), LAMBDA sum :
    Number(x.q + y.q + (sum[1] \div Base), <<sum[1] % Base, sum[2]>>))

\* n * 0x6d2b79f5 exactly, by doubling.
RECURSIVE TimesIncrement(_)
TimesIncrement(n) ==
  IF n = 0 THEN Number(0, Zero)
  ELSE With(TimesIncrement(n \div 2), LAMBDA h :
       With(ExactAdd(h, h), LAMBDA d :
         IF n % 2 = 1 THEN ExactAdd(d, Number(0, MulberryIncrement)) ELSE d))

\* The generator g after n draws, n <= FarAhead + 6: every sum on the way is
\* below 2^53, so t is the exact t + n * 0x6d2b79f5.
Drawn(g, n) == [g EXCEPT !.t = ExactAdd(g.t, TimesIncrement(n))]

\* One draw of Mulberry32 with the 32-bit counter: t is replaced by
\* (t + 0x6D2B79F5) mod 2^32 and the output computed from it.
Mulberry32(g) ==
  With(ToUint32(Add(g.t.w, MulberryIncrement)), LAMBDA w :
    Return([g EXCEPT !.t = Number(0, w)], mulberryWord(w)))

\* The same generator with its counter reduced modulo 2^32.
Wrapped(g) == [g EXCEPT !.t = Number(0, g.t.w)]

\* new SeedRandom(seed, "mulberry") and zero or FarAhead draws.
FarInit ==
  \E sc \in SeedCases, n \in {0, FarAhead} :
    \E c \in {SeedRandom(sc[1], "mulberry", sc[2])} :
        /\ c.ok
        /\ gen = Drawn(c.g, n)
        /\ twin = Wrapped(Drawn(c.g, n))
        /\ mode = "constructed"
        /\ ctorSeed = sc[1]
        /\ call = [op |-> "new", args |-> <<sc[1], "mulberry", n>>]
        /\ out = Outcome(c)
        /\ twinOut = Outcome(c)
        /\ snap = NoSnap
        /\ age = 0
        /\ heap = NoHeap
        /\ canvas = NoCanvas

\* A draw on gen, and the draw of Mulberry32 on twin.
FarDraw(op, r1, r2) ==
  /\ age < MaxFar
  /\ gen' = r1.g
  /\ twin' = r2.g
  /\ call' = [op |-> op, args |-> <<>>]
  /\ out' = Outcome(r1)
  /\ twinOut' = Outcome(r2)
  /\ age' = age + 1
  /\ UNCHANGED <<mode, ctorSeed, snap, heap, canvas>>

FarUint32 == \E r1 \in {uint32(gen)}, r2 \in {Mulberry32(twin)} : FarDraw("uint32", r1, r2)

FarFloat == \E r1 \in {float(gen)}, r2 \in {Mulberry32(twin)} : FarDraw("float", r1, r2)

FarNext == FarUint32 \/ FarFloat

FarSpec == FarInit /\ [][FarNext]_vars

(***************************************************************************)
(* setupThreeCanvas: the render loop and its teardown.                     *)
(***************************************************************************)

\* Frames followed.
MaxFrames == 8

\* renderHandle before render has run: undefined.  The handles the browser
\* hands out are positive.
NoHandle == 0

\* Content rectangles the resize observer reports.
Sizes == { <<300, 150>>, <<600, 300>>, <<300, 300>>, <<600, 150>> }

\* requestAnimationFrame(render) on page c: the browser adds a callback to its
\* list and returns the handle of it.
requestAnimationFrame(c) ==
  [c |-> [c EXCEPT !.lastHandle = c.lastHandle + 1,
                   !.callbacks = c.callbacks \cup {c.lastHandle + 1}],
   handle |-> c.lastHandle + 1]

\* cancelAnimationFrame(handle)
cancelAnimationFrame(c, handle) == [c EXCEPT !.callbacks = c.callbacks \ {handle}]

\* The page when setupThreeCanvas has returned and main.js has run: the
\* observer observes, renderHandle is undefined and the frame requested at
\* the end of setupThreeCanvas, whose handle is dropped, is in the list.
setupThreeCanvas ==
  requestAnimationFrame(
    [callbacks |-> {}, lastHandle |-> 0, renderHandle |-> NoHandle,
     observing |-> TRUE, size |-> <<>>, frames |-> 0, disposed |-> FALSE,
     keydown |-> TRUE]).c

\* render() on page c: draws the frame and requests the next one, keeping
\* its handle in renderHandle.
render(c) ==
  With(requestAnimationFrame([c EXCEPT !.frames = c.frames + 1]), LAMBDA r :
    [r.c EXCEPT !.renderHandle = r.handle])

\* dispose() on page c
dispose(c) ==
  With([c EXCEPT !.observing = FALSE, !.disposed = TRUE], LAMBDA d :
    IF d.renderHandle /= NoHandle THEN cancelAnimationFrame(d, d.renderHandle) ELSE d)

CanvasFrame == UNCHANGED <<gen, twin, mode, ctorSeed, call, out, twinOut, snap, age, heap>>

\* The page after main.js has run; the generator of three-canvas.js is used
\* by neither render nor dispose.
CanvasInit ==
  /\ canvas = setupThreeCanvas
  /\ call = [op |-> "setupThreeCanvas", args |-> <<>>]
  /\ out = [ok |-> TRUE, v |-> "dispose"]
  /\ twinOut = [ok |-> TRUE, v |-> "dispose"]
  /\ gen = Null /\ twin = Null /\ mode = "constructed" /\ ctorSeed = Absent
  /\ snap = NoSnap /\ age = 0 /\ heap = NoHeap

\* The browser runs an animation frame: a callback of its list is taken off
\* the list and called, and every callback is render.
Frame ==
  /\ canvas.frames < MaxFrames
  /\ \E h \in canvas.callbacks :
       canvas' = render(cancelAnimationFrame(canvas, h))
  /\ CanvasFrame

\* The resize observer reports a content rectangle.
Resize ==
  /\ canvas.observing
  /\ \E size \in Sizes : canvas' = [canvas EXCEPT !.size = size]
  /\ CanvasFrame

\* The module is replaced: the callback given to import.meta.hot.dispose
\* calls dispose() and removes the keydown listener.
HotDispose ==
  /\ canvas.keydown
  /\ canvas' = [dispose(canvas) EXCEPT !.keydown = FALSE]
  /\ CanvasFrame

CanvasNext == Frame \/ Resize \/ HotDispose

\* The browser runs the callbacks of its list: a frame that stays requested
\* is run.
CanvasSpec == CanvasInit /\ [][CanvasNext]_vars /\ WF_vars(Frame)

(***************************************************************************)
(* Properties                                                               *)
(***************************************************************************)

\* The calls that return one word of the core.
DrawOps == {"uint32", "float"}

\* The facade calls that validate their arguments.
Validated == {"int", "between", "pick", "sample", "weighted", "chance"}

\* C1.  Determinism: two generators constructed with the same integer or text
\* seed and the same algorithm, and given the same calls, return the same
\* outcome at every step.
C1_Determinism ==
  (mode = "constructed" /\ ctorSeed.kind /= "absent") => out = twinOut

\* Two generators constructed from text have each returned a third word.
C1_Witness ==
  /\ mode = "constructed"
  /\ ctorSeed.kind = "string"
  /\ call.op \in DrawOps
  /\ out.ok /\ twinOut.ok
  /\ age >= 3

\* C2.  setSeed reinitializes the generator: every word drawn after a setSeed
\* that returned is the word a generator freshly constructed with that seed
\* and the algorithm in force (the one given, else the current one) draws.
C2_Reseed ==
  (mode = "reseeded" /\ call.op \in DrawOps) => out = twinOut

\* C3.  Snapshot round trip: when setState installs the snapshot getState
\* returned earlier, the words the generator draws next are the words it drew
\* after the snapshot was taken.
C3_RoundTrip ==
  [][(call'.op = "setState" /\ out'.ok /\ snap.taken /\ call'.args[1] = RNGState(snap.s))
       => drawN(gen', SnapDraws).v = snap.next]_vars

\* A snapshot taken j >= 1 draws after seeding has been installed again two
\* or more draws later.
C3_Witness ==
  /\ call.op = "setState"
  /\ out.ok
  /\ snap.taken
  /\ call.args[1] = RNGState(snap.s)
  /\ \E j \in 1..MaxAge :
       /\ drawN(XoshiroCore(gen, gen.seed), j).g.s = snap.s
       /\ age >= j + 2

\* C4.  While the active core is mulberry, setState throws "State management
\* requires xoshiro algorithm" and getState returns null without throwing.
C4_MulberryState ==
  gen.core = "mulberry" =>
    /\ call.op = "setState" =>
         (~out.ok /\ out.v = "State management requires xoshiro algorithm")
    /\ call.op = "getState" => (out.ok /\ out.v = NullState)

\* getState has been called on a mulberry generator that has drawn.
C4_Witness ==
  /\ gen.core = "mulberry"
  /\ gen.algo = "mulberry"
  /\ call.op = "getState"
  /\ age >= 1

\* C4 as first stated: on a generator recorded to run mulberry, getState and
\* setState both end in an error.
C4_BothThrow ==
  (gen.algo = "mulberry" /\ call.op \in {"getState", "setState"}) => ~out.ok

\* C5.  Fail-fast facade: a validated call that throws leaves the generator as
\* it was, so that its next word is the word it would have drawn anyway.
C5_FailFast ==
  [][(call'.op \in Validated /\ ~out'.ok)
       => (gen' = gen /\ uint32(gen').v = uint32(gen).v)]_vars

\* A validated call has thrown on a generator that has drawn.
C5_Witness ==
  /\ call.op \in Validated
  /\ ~out.ok
  /\ age >= 1

\* C6.  Fail-fast reseeding: a setSeed that throws leaves the generator as it
\* was.
C6_FailFast ==
  [][(call'.op = "setSeed" /\ ~out'.ok) => gen' = gen]_vars

\* C7.  fork() takes exactly one word from the parent: the parent afterwards
\* is the parent after one uint32(), and the child's seed is the hash of that
\* word's decimal digits.
C7_ForkAdvance ==
  [][call'.op = "fork"
       => \E r \in {uint32(gen)} :
            /\ gen' = r.g
            /\ out'.ok
            /\ out'.v.seed = hashString(String(r.v))]_vars

\* A mulberry generator that has drawn has been forked.
C7_Witness ==
  /\ call.op = "fork"
  /\ out.ok
  /\ gen.core = "mulberry"
  /\ age >= 2

\* C8.  fork() preserves the algorithm: the recorded algorithm and the active
\* core agree in every state, and a child runs the core its parent draws from.
C8_ForkAlgorithm ==
  /\ gen.algo = gen.core
  /\ (call.op = "fork" /\ out.ok) => out.v.core = gen.core

\* C9.  Fork determinism: the children forked from two generators constructed
\* alike and given the same calls draw the same words.
C9_ForkDeterminism ==
  (mode = "constructed" /\ ctorSeed.kind /= "absent" /\ call.op = "fork")
    => /\ out.ok /\ twinOut.ok
       /\ drawN(out.v, SnapDraws).v = drawN(twinOut.v, SnapDraws).v

\* Two generators constructed from a number have drawn and been forked.
C9_Witness ==
  /\ mode = "constructed"
  /\ ctorSeed.kind = "number"
  /\ call.op = "fork"
  /\ out.ok /\ twinOut.ok
  /\ age >= 2

\* How many times x occurs in the sequence seq.
Count(seq, x) == Cardinality({i \in 1..Len(seq) : seq[i] = x})

MaxWords == 8

\* C10.  Range of int: for min <= max with max - min + 1 <= 2^32, int(min, max)
\* returns min + (x mod range) for the first word x drawn that is below
\* limit = floor(2^32 / range) * range, having discarded every word before it,
\* and the result lies between min and max.
C10_IntRange ==
  [][(call'.op = "int" /\ out'.ok)
       => LET min == call'.args[1]
              max == call'.args[2]
              range == Add(Sub(max, min), <<0, 1>>)
              limit == Mul(DivMod(TwoTo32, range).q, range)
          IN  /\ Le(min, out'.v)
              /\ Le(out'.v, max)
              /\ \E k \in 1..MaxWords :
                   \E d \in {drawN(gen, k)} :
                     /\ \A i \in 1..(k - 1) : Le(limit, d.v[i])
                     /\ Lt(d.v[k], limit)
                     /\ out'.v = Add(min, DivMod(d.v[k], range).r)
                     /\ gen' = d.g]_vars

\* The first returning call on a generator constructed from a seed was
\* int(-2^30, 2^30), and it discarded the generator's first word.
C10_Witness ==
  /\ call.op = "int"
  /\ out.ok
  /\ call.args = <<<<-16384, 0>>, <<16384, 0>>>>
  /\ age = 1
  /\ ctorSeed.kind /= "absent"
  /\ \E c \in {SeedRandom(ctorSeed, gen.algo, Host)} :
       /\ Le(<<32768, 1>>, uint32(c.g).v)
       /\ gen = drawN(c.g, 2).g

\* The sum of the weights of choices.
RECURSIVE WeightSum(_)
WeightSum(choices) ==
  IF choices = <<>> THEN 0 ELSE choices[1][2] + WeightSum(Tail(choices))

\* The arguments that the call c is to refuse.
Invalid(c) ==
  CASE c.op = "int" -> Lt(c.args[2], c.args[1])
    [] c.op = "between" -> Le(c.args[2], c.args[1])
    [] c.op = "pick" -> c.args[1] = <<>>
    [] c.op = "sample" -> c.args[2] < 0 \/ c.args[2] > Len(c.args[1])
    [] c.op = "weighted" ->
         \/ c.args[1] = <<>>
         \/ \E k \in 1..Len(c.args[1]) : c.args[1][k][2] < 0
         \/ WeightSum(c.args[1]) = 0
    [] c.op = "chance" -> c.args[1][1] < 0 \/ c.args[1][1] > c.args[1][2]

\* A call of int, or of normal, is inside its loop.
InIntLoop == InLoop /\ call.op = "int"
InNormalLoop == InLoop /\ call.op = "normal"

\* The call under way is over, or the draws explored are used up.
LoopLeft == ~InLoop \/ age = MaxAge

\* The calls that are over threw exactly on the arguments they are to refuse.
ValidationExact == call.op \in Validated /\ ~InLoop => (out.ok <=> ~Invalid(call))

\* C12.  Validation outcomes: int, between, pick, sample, weighted and chance
\* throw exactly on the arguments they are to refuse (min > max; min >= max;
\* an empty array; n < 0 or n > length; no choices, a negative weight or a
\* total of 0; a probability outside [0, 1]), and in every other case the
\* call returns a value: a call of int that has passed its range check is in
\* a loop that some word ends.
C12_Validation ==
  /\ ValidationExact
  /\ InIntLoop => Lt(Zero, call.limit)

\* C17.  int(min, max) terminates for every min <= max: the loop it enters
\* can be left (some word is below limit), and it is left.
C17_IntTerminates ==
  /\ [](InIntLoop => Lt(Zero, call.limit))
  /\ InIntLoop ~> LoopLeft

\* C18.  normal(mean, std) terminates from every state the generator can be
\* in, the all-zero xoshiro state that setState installs included.
C18_NormalTerminates == InNormalLoop ~> LoopLeft

\* The array in the snapshot the caller keeps.
SnapshotValue == IF heap.snapshot = NoRef THEN <<>> ELSE heap.mem[heap.snapshot]

\* C13.  State evolves only through advance: getSeed() and getState() leave
\* the generator as it was (its state and its seed); the seed, which
\* getSeed() returns, is the same before and after every step that is not a
\* setSeed; a draw, a getSeed, a setState or a setSeed leaves the array of the
\* snapshot the caller keeps as it was, whether that snapshot was returned by
\* getState or has been passed to setState; and a write by the caller into
\* the snapshot's array leaves the generator as it was.
C13_Frame ==
  [][ /\ call'.op \in {"getSeed", "getState"} => gen' = gen
      /\ call'.op /= "setSeed" => gen'.seed = gen.seed
      /\ call'.op = "getSeed" => out'.v = gen.seed
      /\ call'.op \in {"uint32", "getSeed", "setState", "setSeed"} => SnapshotValue' = SnapshotValue
      /\ call'.op = "edit" => gen' = gen ]_vars

\* The caller has written into a snapshot from which the generator had drawn
\* away.
C13_Witness ==
  /\ call.op = "edit"
  /\ gen.core = "xoshiro"
  /\ SnapshotValue[2] /= gen.s[2]
  /\ SnapshotValue[1] = call.args[2]

\* C14.  Entropy is consulted exactly once per construction or setSeed whose
\* seed is absent, and never otherwise: the last call made one call of
\* getEntropySeed if it is a construction or a setSeed with an absent seed,
\* and none if it has an integer or text seed or is any other method.
C14_EntropyOnce ==
  call.reads = IF call.op \in {"new", "setSeed"} /\ call.args[1].kind = "absent" THEN 1 ELSE 0

\* A fork, which constructs a child, has followed a reseeding from entropy.
C14_Witness ==
  /\ call.op = "fork" /\ out.ok
  /\ mode = "reseeded"
  /\ gen.seed \in EntropyWords

\* a XOR b and mul32(a, b) on unsigned 32-bit words.
Xor32(a, b) == ToUint32(Xor(a, b))
Mul32(a, b) == ToUint32(imul(a, b))

\* The update for character k stated on unsigned words: h1, h2 and h3 from the
\* words held before the character; h4 from the h1 held before it (old) or
\* from the h1 just computed.
FormulaStep(h, k, old) ==
  With(Xor32(h[2], Mul32(Xor32(h[1], <<0, k>>), HashMul[1])), LAMBDA n1 :
    << n1,
       Xor32(h[3], Mul32(Xor32(h[2], <<0, k>>), HashMul[2])),
       Xor32(h[4], Mul32(Xor32(h[3], <<0, k>>), HashMul[3])),
       Xor32(IF old THEN h[1] ELSE n1, Mul32(Xor32(h[4], <<0, k>>), HashMul[4])) >>)

\* The formula over the first n characters of str, from the constants.
RECURSIVE Formula(_, _, _)
Formula(str, n, old) ==
  IF n = 0 THEN HashInit
  ELSE With(Formula(str, n - 1, old), LAMBDA h : FormulaStep(h, str[n], old))

\* C15.  Seed hash formula, amended: hashString returns, as unsigned 32-bit
\* words, the accumulators obtained from the constants by updating them for
\* each character code in order, h1, h2 and h3 from the values held before the
\* character and h4 = h1_new XOR mul32(h4 XOR k, 2716044179) from the h1 just
\* computed for that character.
C15_HashFormula ==
  call.op = "hashString" =>
    /\ out.v = Formula(call.args[1], Len(call.args[1]), FALSE)
    /\ \A j \in 1..4 : out.v[j][1] \in 0..(Base - 1) /\ out.v[j][2] \in 0..(Base - 1)

\* A text of MaxText characters whose hash is not the one h1_old would give.
C15_Witness ==
  /\ call.op = "hashString"
  /\ Len(call.args[1]) = MaxText
  /\ out.v /= Formula(call.args[1], MaxText, TRUE)

\* C15 as the spec states it: h4 = h1_old XOR mul32(h4 XOR k, 2716044179), all
\* four right-hand sides using the values held before the character.
C15_HashPreUpdate ==
  call.op = "hashString" => out.v = Formula(call.args[1], Len(call.args[1]), TRUE)

\* C16.  Mulberry32 keeps a 32-bit counter: after any number of draws each
\* word drawn is the word computed from the counter (t + 0x6D2B79F5) mod 2^32,
\* the counter of the generator that wraps on every draw.
C16_WrappedOutput == call.op \in DrawOps => out = twinOut

\* C19.  Teardown stops the render loop: once dispose() has been called,
\* render is never run again, whenever dispose() is called, also before the
\* first frame has fired.
C19_DisposeStops == [][canvas.disposed => canvas'.frames = canvas.frames]_vars

=============================================================================
